---- MODULE Spec2Model ----
(***************************************************************************)
(* Render service: job store, submit handler, per-job worker task with its *)
(* external process, pipes and stderr drain task, status and output        *)
(* queries (renderer/src/main.rs, jobs.rs), and the design compiler: the   *)
(* duration computation and the filter graph (renderer/src/ffmpeg.rs).     *)
(*                                                                         *)
(* Option<T> is a sequence of length at most one: None is <<>>, Some(x) is *)
(* <<x>>.  A HashMap is a function whose DOMAIN is its key set.  One       *)
(* action is one poll segment of a task: the code between two awaits.      *)
(***************************************************************************)
EXTENDS Integers, Sequences, FiniteSets, TLC

VARIABLES
    store,        \* JobStore: HashMap<Uuid, Job>
    pc,           \* per job: position of submit_render and of its worker task
    design,       \* per job: the Design moved into the worker task
    todo,         \* per job: rest of the loop the worker is in (downloads, fonts)
    assets,       \* per job: Vec<(usize, TrackItem, PathBuf)> of the worker
    font_map,     \* per job: keys of HashMap<String, PathBuf> of the worker
    wait_status,  \* per job: Option of the result of child.wait()
    submitResp,   \* per job: Option of the response of submit_render
    resp,         \* response of the latest status / output query
    design_in,    \* input of the compiler functions (pure-function runs)
    duration_out, \* Option of the result of compute_duration_ms(design_in)
    built_out,    \* Option of the command compiled from design_in
    rebuilt_out,  \* Option of the command a second run compiles from an equal Design
    proc,         \* per job: position of the external process
    out_pipe,     \* per job: lines buffered in the pipe of the process's stdout
    err_pipe,     \* per job: lines buffered in the pipe of the process's stderr
    err_task,     \* per job: position of the task that drains stderr
    lock,         \* guards of the store's RwLock held by a suspended task
    out_req,      \* Option of the get_output request suspended at its file read
    line_in       \* per job: Option of the line the progress loop read last

vars == <<store, pc, design, todo, assets, font_map, wait_status, submitResp,
          resp, design_in, duration_out, built_out, rebuilt_out,
          proc, out_pipe, err_pipe, err_task, lock, out_req, line_in>>

compileVars == <<built_out, rebuilt_out>>

pipeVars == <<proc, out_pipe, err_pipe, err_task>>

lockVars == <<lock, out_req>>

jobVars == <<store, pc, design, todo, assets, font_map, wait_status, submitResp>>

----------------------------------------------------------------------------
(* Bounds *)

NumJobs == 2        \* job identifiers that submit_render can draw
MaxItems == 2       \* longest ordered sequence of a compiled Design
MaxGraphItems == 3  \* longest ordered sequence of a Design whose graph is compiled
PipeCap == 1        \* lines a pipe buffers before a write to it blocks

JobIds == 1..NumJobs

----------------------------------------------------------------------------
(* Option *)

None == <<>>
Some(x) == <<x>>
IsSome(o) == o # <<>>
unwrap_or(o, d) == IF o = <<>> THEN d ELSE o[1]

----------------------------------------------------------------------------
(* types.rs *)

TrackType == {"Video", "Image", "Audio", "Text"}

Trim(from, to) == [from |-> from, to |-> to]

\* The Details fields the compiler reads for the designs of this model; width,
\* height, transform, rotate, brightness, volume and the text style fields are
\* absent (None) in every design.  opacity is in tenths of a percent (999 is
\* 99.9); left and top are Option<String>, a string being given by the number
\* before its suffix, in tenths (None if that part is no number), and by
\* whether it ends in "px".
DetailsOf(src, fontUrl, opacity, left, top) ==
    [src |-> src, fontUrl |-> fontUrl, opacity |-> opacity, left |-> left, top |-> top]

Details(src, fontUrl) == DetailsOf(src, fontUrl, <<>>, <<>>, <<>>)

PxString(num, px) == [num |-> num, px |-> px]

TrackItem(id, kind, details, trim, display) ==
    [id |-> id, kind |-> kind, details |-> details, trim |-> trim, display |-> display]

\* trackItemsMap is given as the sequence of its values in the order
\* HashMap::values() enumerates them.
Design(trackItems, trackItemsMap) ==
    [trackItems |-> trackItems, trackItemsMap |-> trackItemsMap]

\* it.details.as_ref().and_then(|d| d.src.clone())
ItemSrc(it) == IF it.details = None THEN None ELSE it.details[1].src
\* it.details.as_ref().and_then(|d| d.fontUrl.clone())
ItemFontUrl(it) == IF it.details = None THEN None ELSE it.details[1].fontUrl

\* if !design.trackItems.is_empty() { trackItems } else { trackItemsMap.values() }
Items(d) == IF d.trackItems # <<>> THEN d.trackItems ELSE d.trackItemsMap

----------------------------------------------------------------------------
(* ffmpeg.rs *)

DefaultDurationMs == 10000

\* MaxEnd without the display window (lines 63-64 left out).
RECURSIVE MaxEndTrimOnly(_, _)
MaxEndTrimOnly(items, max_end) ==
    IF items = <<>> THEN max_end
    ELSE LET trim_end == unwrap_or(Head(items).trim.to, 0)
         IN  MaxEndTrimOnly(Tail(items), IF trim_end > max_end THEN trim_end ELSE max_end)

RECURSIVE MaxEnd(_, _)
MaxEnd(items, max_end) ==
    IF items = <<>> THEN max_end
    ELSE LET it == Head(items)
             trim_end == unwrap_or(it.trim.to, 0)
             m1 == IF trim_end > max_end THEN trim_end ELSE max_end
             disp_end == unwrap_or(it.display.to, 0)
             m2 == IF disp_end > m1 THEN disp_end ELSE m1
         IN  MaxEnd(Tail(items), m2)

compute_duration_ms(d) ==
    LET max_end == MaxEnd(Items(d), 0)
    IN  IF max_end = 0 THEN DefaultDurationMs ELSE max_end

\* f32::round on tenths: half away from zero.
RoundTenths(t) == IF t >= 0 THEN (t + 5) \div 10 ELSE 0 - ((5 - t) \div 10)

\* line 70: strip_suffix("px"), parse::<f32>, round, else 0
parse_px(s) ==
    IF s = <<>> THEN 0
    ELSE IF ~s[1].px THEN 0
    ELSE IF s[1].num = <<>> THEN 0
    ELSE RoundTenths(s[1].num[1])

\* opacity_alpha without the clamp.
opacity_alpha_unclamped(o) == unwrap_or(o, 1000)

\* line 75, in thousandths: o.unwrap_or(100.0) / 100.0, clamped to [0, 1]
opacity_alpha(o) ==
    LET v == unwrap_or(o, 1000)
    IN  IF v < 0 THEN 0 ELSE IF v > 1000 THEN 1000 ELSE v

ItemOpacity(it) == IF it.details = <<>> THEN <<>> ELSE it.details[1].opacity
ItemLeft(it) == IF it.details = <<>> THEN <<>> ELSE it.details[1].left
ItemTop(it) == IF it.details = <<>> THEN <<>> ELSE it.details[1].top

\* a.or(b) on Options
OrElse(a, b) == IF a # <<>> THEN a ELSE b

\* Labels of the filter graph: <<"in", i, "v">> is the stream "i:v" of input i,
\* <<"v", i>>, <<"m", i>>, <<"a", i>> are format!("v{}", i) and so on,
\* <<"txt", id>> is format!("txt{}", id), <<"aout">> is "aout".
InStream(i, kind) == <<"in", i, kind>>

\* lines 134-155: the per-item chain of a visual asset.  Times are in ms, as
\* "{:.3}" prints them in seconds.
VisualChain(ff_idx, item) ==
    LET a == opacity_alpha(ItemOpacity(item))
    IN  [f |-> "chain",
         ins |-> <<InStream(ff_idx, "v")>>,
         steps |-> <<[name |-> "format", pix_fmt |-> "rgba"], [name |-> "scale"]>>
                   \o (IF a < 999 THEN <<[name |-> "colorchannelmixer", aa |-> a]>> ELSE <<>>),
         out |-> <<"v", ff_idx>>]

\* Overlay that is enabled from 0 to the output duration for every item.
OverlayAlwaysOn(ff_idx, item, last, duration_ms) ==
    [f |-> "overlay",
     ins |-> <<last, <<"v", ff_idx>>>>,
     x |-> parse_px(ItemLeft(item)),
     y |-> parse_px(ItemTop(item)),
     start |-> 0,
     end |-> duration_ms,
     out |-> <<"m", ff_idx>>]

\* lines 157-165: the overlay of a visual asset onto the running composite
Overlay(ff_idx, item, last, duration_ms) ==
    [f |-> "overlay",
     ins |-> <<last, <<"v", ff_idx>>>>,
     x |-> parse_px(ItemLeft(item)),
     y |-> parse_px(ItemTop(item)),
     start |-> unwrap_or(OrElse(item.display.from, item.trim.from), 0),
     end |-> unwrap_or(OrElse(item.display.to, item.trim.to), duration_ms),
     out |-> <<"m", ff_idx>>]

\* lines 169-178: the chain of an audio asset
AudioChain(ff_idx, item, duration_ms) ==
    [f |-> "achain",
     ins |-> <<InStream(ff_idx, "a")>>,
     volume |-> 100,
     atrim_start |-> item.trim.from,
     adelay |-> unwrap_or(OrElse(item.display.from, item.trim.from), 0),
     atrim_end |-> duration_ms,
     out |-> <<"a", ff_idx>>]

\* lines 130-182: the loop over the assets, from asset i on.  st holds
\* filter_parts, audio_labels and last.
RECURSIVE AssetLoop(_, _, _, _)
AssetLoop(as, i, st, duration_ms) ==
    IF i > Len(as) THEN st
    ELSE LET idx0 == as[i][1]
             item == as[i][2]
             ff_idx == idx0 + 1
         IN  IF item.kind \in {"Video", "Image"}
             THEN AssetLoop(as, i + 1,
                     [filter_parts |-> st.filter_parts
                                       \o <<VisualChain(ff_idx, item),
                                            Overlay(ff_idx, item, st.last, duration_ms)>>,
                      audio_labels |-> st.audio_labels,
                      last |-> <<"m", ff_idx>>],
                     duration_ms)
             ELSE IF item.kind = "Audio"
             THEN AssetLoop(as, i + 1,
                     [filter_parts |-> Append(st.filter_parts, AudioChain(ff_idx, item, duration_ms)),
                      audio_labels |-> Append(st.audio_labels, <<"a", ff_idx>>),
                      last |-> st.last],
                     duration_ms)
             ELSE AssetLoop(as, i + 1, st, duration_ms)

\* drawtext that always draws onto the canvas.
DrawTextOnCanvas(it, last, duration_ms) ==
    [f |-> "drawtext",
     ins |-> <<InStream(0, "v")>>,
     fontfile |-> it.id[1],
     x |-> parse_px(ItemLeft(it)),
     y |-> parse_px(ItemTop(it)),
     alpha |-> opacity_alpha(ItemOpacity(it)),
     start |-> unwrap_or(it.display.from, 0),
     end |-> unwrap_or(it.display.to, duration_ms),
     out |-> <<"txt", it.id[1]>>]

\* lines 190-208: the drawtext filter of a text item with a font
DrawText(it, last, duration_ms) ==
    [f |-> "drawtext",
     ins |-> <<last>>,
     fontfile |-> it.id[1],
     x |-> parse_px(ItemLeft(it)),
     y |-> parse_px(ItemTop(it)),
     alpha |-> opacity_alpha(ItemOpacity(it)),
     start |-> unwrap_or(it.display.from, 0),
     end |-> unwrap_or(it.display.to, duration_ms),
     out |-> <<"txt", it.id[1]>>]

\* lines 185-212: the loop over the items of the design; fm is the key set of
\* font_map.
RECURSIVE TextLoop(_, _, _, _)
TextLoop(items, st, fm, duration_ms) ==
    IF items = <<>> THEN st
    ELSE LET it == Head(items)
         IN  IF it.kind = "Text" /\ it.id # <<>> /\ it.id[1] \in fm
             THEN TextLoop(Tail(items),
                     [filter_parts |-> Append(st.filter_parts, DrawText(it, st.last, duration_ms)),
                      audio_labels |-> st.audio_labels,
                      last |-> <<"txt", it.id[1]>>],
                     fm, duration_ms)
             ELSE TextLoop(Tail(items), st, fm, duration_ms)

\* Audio mix that lets amix normalize and always declares two inputs.
AudioMixNormalized(audio_labels) ==
    IF audio_labels = <<>> THEN <<>>
    ELSE IF Len(audio_labels) = 1
    THEN <<[f |-> "anull", ins |-> audio_labels, out |-> <<"aout">>]>>
    ELSE <<[f |-> "amix", ins |-> audio_labels, inputs |-> 2,
            normalize |-> 1, out |-> <<"aout">>]>>

\* lines 219-227: the filter that ends the audio branches
AudioMix(audio_labels) ==
    IF audio_labels = <<>> THEN <<>>
    ELSE IF Len(audio_labels) = 1
    THEN <<[f |-> "anull", ins |-> audio_labels, out |-> <<"aout">>]>>
    ELSE <<[f |-> "amix", ins |-> audio_labels, inputs |-> Len(audio_labels),
            normalize |-> 0, out |-> <<"aout">>]>>

\* build_ffmpeg_command has no Err return: every path ends in Ok(BuiltCommand).
\* inputs: the canvas (input 0) followed by one input per asset.  The
\* argument list is given by its parts: the inputs, the filters joined into
\* -filter_complex, and the -map arguments; the flags that do not depend on
\* the items (encoder, fps, size, output path) are left out.
build_ffmpeg_command(d, as, fm) ==
    LET duration_ms == compute_duration_ms(d)
        start == [filter_parts |-> <<>>, audio_labels |-> <<>>, last |-> InStream(0, "v")]
        st == TextLoop(Items(d), AssetLoop(as, 1, start, duration_ms), fm, duration_ms)
        filter_parts == st.filter_parts \o AudioMix(st.audio_labels)
        maps == <<[src |-> st.last, kind |-> "v"]>>
                \o (IF st.audio_labels # <<>> THEN <<[src |-> <<"aout">>, kind |-> "a"]>> ELSE <<>>)
        mapped_audio == \E i \in 1..Len(maps) : maps[i].kind = "a"
    IN  [ok |-> TRUE,
         inputs |-> <<"canvas">> \o [i \in 1..Len(as) |-> as[i][2].kind],
         duration_ms |-> duration_ms,
         filter_parts |-> filter_parts,
         maps |-> maps,
         map_base_audio |-> ~mapped_audio]

----------------------------------------------------------------------------
(* jobs.rs *)

JobNew == [status |-> "Pending", progress |-> 0, output_path |-> None, error |-> None]

to_status_response(job, id) ==
    [status |-> CASE job.status = "Pending" -> "PENDING"
                  [] job.status = "Running" -> "RUNNING"
                  [] job.status = "Completed" -> "COMPLETED"
                  [] job.status = "Failed" -> "FAILED",
     progress |-> job.progress,
     url |-> IF IsSome(job.output_path) THEN Some(<<"render", id, "output">>) ELSE None,
     error |-> job.error]

\* insert that leaves the map as it is.
insertNothing(s, id, job) == s

insert(s, id, job) == IF id \in DOMAIN s THEN [s EXCEPT ![id] = job] ELSE s @@ (id :> job)

get(s, id) == IF id \in DOMAIN s THEN Some(s[id]) ELSE None

\* update that writes the result to every entry of the map.
updateAll(s, id, job) == [k \in DOMAIN s |-> job]

\* update(&id, f): job is f applied to the entry under id, used only if the
\* entry exists.
update(s, id, job) == IF id \in DOMAIN s THEN [s EXCEPT ![id] = job] ELSE s

----------------------------------------------------------------------------
(* main.rs: the closures the worker passes to JobStore::update *)

\* SetFailed that also resets the progress.
SetFailedResetProgress(j, msg) ==
    [j EXCEPT !.status = "Failed", !.error = Some(msg), !.progress = 0]

SetFailed(j, msg) == [j EXCEPT !.status = "Failed", !.error = Some(msg)]

SetRunning(j) == [j EXCEPT !.status = "Running"]

SetProgress(j, pct) == [j EXCEPT !.progress = pct]

\* SetCompleted that leaves the progress where the last line put it.
SetCompletedStatusOnly(j, out) ==
    [j EXCEPT !.status = "Completed", !.output_path = Some(out)]

SetCompleted(j, out) ==
    [j EXCEPT !.status = "Completed", !.progress = 100, !.output_path = Some(out)]

----------------------------------------------------------------------------
(* Inputs *)

NoWindow == Trim(None, None)

VideoItem == TrackItem(Some("v2"), "Video", Some(Details(Some("video-url"), None)), NoWindow, Trim(None, Some(4000)))
AudioItem == TrackItem(Some("a1"), "Audio", Some(Details(Some("audio-url"), None)), Trim(None, Some(4000)), NoWindow)
ImageItem == TrackItem(Some("i1"), "Image", Some(Details(Some("image-url"), None)), NoWindow, NoWindow)
TextItem == TrackItem(Some("t1"), "Text", Some(Details(None, Some("font-url"))), NoWindow, NoWindow)
BareItem == TrackItem(None, "Image", None, NoWindow, NoWindow)

\* The designs clients submit: no item with a source; audio only; a text item
\* with a font next to an image; and a design whose items come from the keyed
\* mapping, a video with a display window.
JobDesigns ==
    { Design(<<BareItem>>, <<>>),
      Design(<<AudioItem>>, <<>>),
      Design(<<TextItem, ImageItem>>, <<>>),
      Design(<<>>, <<VideoItem>>) }

\* One line of the external process's standard output: its key and, as an
\* Option, what val.trim().parse::<u64>() makes of the text after "=".
Lines ==
    [key : {"out_time_ms"}, val : {None, Some(0), Some(5000), Some(20000000)}]
    \cup {[key |-> "frame", val |-> Some(5000)]}

\* The lines of the runs that follow the progress loop: those of Lines and,
\* of a job of 4 s or 10 s, 29 % (1160 of 4000, 2900 of 10000).
ProgressLines ==
    [key : {"out_time_ms"}, val : {None, Some(0), Some(1160), Some(2900), Some(5000), Some(20000000)}]
    \cup {[key |-> "frame", val |-> Some(5000)]}

\* Path parameter of a query: a text that is or is not the hyphenated form of
\* an identifier.
IdTexts == [wellFormed : {TRUE}, value : JobIds] \cup {[wellFormed |-> FALSE, value |-> 1]}
\* Uuid::parse_str(&id).ok()
parse_str(t) == IF t.wellFormed THEN Some(t.value) ELSE None

\* In the runs with queries the last identifier is never submitted: it stays
\* the unknown identifier of a query.
KnownIds == 1..(NumJobs - 1)

\* Designs handed to the compiler functions: windows with no end, an end of 0
\* and two positive ends, in the ordered sequence and in the keyed mapping.
EndValues == {None, Some(0), Some(3000), Some(12000)}
WindowItems == { TrackItem(None, "Image", None, Trim(None, t), Trim(None, e)) :
                   t \in EndValues, e \in EndValues }
SeqsUpTo(S, n) == UNION { [1..k -> S] : k \in 0..n }
CompilerDesigns ==
    { Design(l, m) : l \in SeqsUpTo(WindowItems, MaxItems), m \in SeqsUpTo(WindowItems, 1) }

\* Items of the designs whose filter graph is compiled.  Visual assets: an
\* image at half opacity placed at (50px, 100px); a video without details
\* beyond its source, shown from 1 s to 3 s; a video of negative opacity with
\* an unparseable left, a fractional top and a trim window; an image of
\* opacity 99.9 whose left lacks the suffix and whose top is no number, with a
\* display start and a trim end; an image of opacity 99.8 with a negative
\* top; a video of opacity 150.
ImgHalf == TrackItem(Some("i1"), "Image",
                     Some(DetailsOf(Some("image-url"), None, Some(500),
                                    Some(PxString(Some(500), TRUE)), Some(PxString(Some(1000), TRUE)))),
                     NoWindow, NoWindow)
VidWin == TrackItem(Some("v2"), "Video", Some(Details(Some("video-url"), None)),
                    NoWindow, Trim(Some(1000), Some(3000)))
VidNeg == TrackItem(Some("v3"), "Video",
                    Some(DetailsOf(Some("video-url"), None, Some(0 - 100),
                                   Some(PxString(None, FALSE)), Some(PxString(Some(75), TRUE)))),
                    Trim(Some(2000), Some(12000)), NoWindow)
ImgEdge == TrackItem(Some("i4"), "Image",
                     Some(DetailsOf(Some("image-url"), None, Some(999),
                                    Some(PxString(Some(500), FALSE)), Some(PxString(None, TRUE)))),
                     Trim(None, Some(4000)), Trim(Some(500), None))
ImgAlmost == TrackItem(Some("i5"), "Image",
                       Some(DetailsOf(Some("image-url"), None, Some(998),
                                      None, Some(PxString(Some(0 - 25), TRUE)))),
                       NoWindow, NoWindow)
VidOver == TrackItem(Some("v6"), "Video",
                     Some(DetailsOf(Some("video-url"), None, Some(1500), None, None)),
                     NoWindow, NoWindow)
\* Audio assets: one without windows, one trimmed and delayed.
AudPlain == TrackItem(Some("a1"), "Audio", Some(Details(Some("audio-url"), None)),
                      NoWindow, NoWindow)
AudTrim == TrackItem(Some("a2"), "Audio", Some(Details(Some("audio-url"), None)),
                     Trim(Some(1000), None), Trim(Some(2000), None))
\* Text items: two that carry the same identifier, one without identifier,
\* one that also has a source.
TxtOne == TrackItem(Some("t1"), "Text", Some(Details(None, Some("font-url"))),
                    NoWindow, NoWindow)
TxtSameId == TrackItem(Some("t1"), "Text",
                       Some(DetailsOf(None, Some("font-url"), None,
                                      Some(PxString(Some(100), TRUE)), None)),
                       NoWindow, Trim(None, Some(2000)))
TxtNoId == TrackItem(None, "Text", Some(Details(None, Some("font-url"))),
                     NoWindow, NoWindow)
TxtSrc == TrackItem(Some("t2"), "Text", Some(Details(Some("text-url"), Some("font-url"))),
                    NoWindow, NoWindow)

GraphItems ==
    { ImgHalf, VidWin, VidNeg, ImgEdge, ImgAlmost, VidOver, AudPlain, AudTrim,
      TxtOne, TxtSameId, TxtNoId, TxtSrc, BareItem }

\* The order in which the keyed mapping enumerates its values is the order of
\* the sequence that stands for it.
GraphDesigns ==
    { Design(l, <<>>) : l \in SeqsUpTo(GraphItems, MaxGraphItems) }
    \cup { Design(<<>>, m) : m \in SeqsUpTo(GraphItems, MaxItems) }

----------------------------------------------------------------------------
(* main.rs: submit_render, the handler *)

NoDesign == Design(<<>>, <<>>)

InitJobs ==
    /\ store = << >>
    /\ pc = [j \in JobIds |-> "idle"]
    /\ design = [j \in JobIds |-> NoDesign]
    /\ todo = [j \in JobIds |-> <<>>]
    /\ assets = [j \in JobIds |-> <<>>]
    /\ font_map = [j \in JobIds |-> {}]
    /\ wait_status = [j \in JobIds |-> None]
    /\ submitResp = [j \in JobIds |-> None]
    /\ resp = None
    /\ proc = [j \in JobIds |-> "none"]
    /\ out_pipe = [j \in JobIds |-> 0]
    /\ err_pipe = [j \in JobIds |-> 0]
    /\ err_task = [j \in JobIds |-> "none"]
    /\ lock = {}
    /\ out_req = None
    /\ line_in = [j \in JobIds |-> None]

Init ==
    /\ InitJobs
    /\ design_in = NoDesign
    /\ duration_out = None
    /\ built_out = None
    /\ rebuilt_out = None

\* lines 41-52: the job is created Pending and inserted under a fresh identifier.
SubmitInsert(j, d) ==
    /\ pc[j] = "idle"
    /\ j \notin DOMAIN store
    /\ store' = insert(store, j, JobNew)
    /\ design' = [design EXCEPT ![j] = d]
    /\ pc' = [pc EXCEPT ![j] = "inserted"]
    /\ UNCHANGED <<todo, assets, font_map, wait_status, submitResp, resp, design_in, duration_out>>

\* lines 54-58, 149: the worker task is spawned and the identifier returned.
SubmitSpawn(j) ==
    /\ pc[j] = "inserted"
    /\ pc' = [pc EXCEPT ![j] = "mkdir"]
    /\ submitResp' = [submitResp EXCEPT ![j] = Some([ok |-> TRUE, jobId |-> j])]
    /\ UNCHANGED <<store, design, todo, assets, font_map, wait_status, resp, design_in, duration_out>>

----------------------------------------------------------------------------
(* main.rs: the worker task, lines 58-147 *)

HasSrc(it) == IsSome(ItemSrc(it))
NeedsFont(it) == it.kind = "Text" /\ IsSome(ItemFontUrl(it))

\* The items of the download loop that reach download_asset (lines 65-67).
SrcItems(d) == SelectSeq(Items(d), HasSrc)
\* The items of the font loop that reach download_asset (lines 79-81).
FontItems(d) == SelectSeq(Items(d), NeedsFont)

\* The worker goes from the download loop to the build, leaving out the fonts.
AfterDownloadsSkipFonts(d, as) ==
    IF as = <<>> THEN "no_assets" ELSE "build"

\* Where the worker stands once the download loop is over (line 74 on).
AfterDownloads(d, as) ==
    IF as = <<>> THEN "no_assets"
    ELSE IF FontItems(d) = <<>> THEN "build" ELSE "fonts"

\* line 59: create_dir_all(&job_dir)
MkDir(j) ==
    /\ pc[j] = "mkdir"
    /\ \E ok \in BOOLEAN :
          IF ok
          THEN /\ todo' = [todo EXCEPT ![j] = SrcItems(design[j])]
               /\ pc' = [pc EXCEPT ![j] =
                            IF SrcItems(design[j]) = <<>>
                            THEN AfterDownloads(design[j], <<>>) ELSE "download"]
          ELSE /\ pc' = [pc EXCEPT ![j] = "mkdir_failed"]
               /\ UNCHANGED todo
    /\ UNCHANGED <<store, design, assets, font_map, wait_status, submitResp, resp, design_in, duration_out>>

\* lines 65-73: one download_asset of the asset loop
Download(j) ==
    /\ pc[j] = "download"
    /\ \E ok \in BOOLEAN :
          IF ok
          THEN LET idx == Len(assets[j])
                   as == Append(assets[j], <<idx, Head(todo[j])>>)
               IN  /\ assets' = [assets EXCEPT ![j] = as]
                   /\ IF Tail(todo[j]) # <<>>
                      THEN /\ todo' = [todo EXCEPT ![j] = Tail(todo[j])]
                           /\ UNCHANGED pc
                      ELSE /\ todo' = [todo EXCEPT ![j] = FontItems(design[j])]
                           /\ pc' = [pc EXCEPT ![j] = AfterDownloads(design[j], as)]
          ELSE /\ pc' = [pc EXCEPT ![j] = "download_failed"]
               /\ UNCHANGED <<todo, assets>>
    /\ UNCHANGED <<store, design, font_map, wait_status, submitResp, resp, design_in, duration_out>>

\* lines 79-88: one download_asset of the font loop
FontDownload(j) ==
    /\ pc[j] = "fonts"
    /\ \E ok \in BOOLEAN :
          IF ok
          THEN LET it == Head(todo[j])
               IN  /\ font_map' = [font_map EXCEPT ![j] =
                                      IF IsSome(it.id) THEN @ \cup {it.id[1]} ELSE @]
                   /\ todo' = [todo EXCEPT ![j] = Tail(todo[j])]
                   /\ pc' = [pc EXCEPT ![j] = IF Tail(todo[j]) = <<>> THEN "build" ELSE "fonts"]
          ELSE /\ pc' = [pc EXCEPT ![j] = "font_failed"]
               /\ UNCHANGED <<todo, font_map>>
    /\ UNCHANGED <<store, design, assets, wait_status, submitResp, resp, design_in, duration_out>>

\* lines 91-99: build the command; on Ok the job is set Running
Build(j) ==
    /\ pc[j] = "build"
    /\ LET built == build_ffmpeg_command(design[j], assets[j], font_map[j])
       IN  IF built.ok
           THEN /\ store' = update(store, j, SetRunning(store[j]))
                /\ pc' = [pc EXCEPT ![j] = "spawn"]
           ELSE /\ pc' = [pc EXCEPT ![j] = "build_failed"]
                /\ UNCHANGED store
    /\ UNCHANGED <<design, todo, assets, font_map, wait_status, submitResp, resp, design_in, duration_out>>

\* lines 100-104: cmd.spawn()
Spawn(j) ==
    /\ pc[j] = "spawn"
    /\ \E ok \in BOOLEAN :
          pc' = [pc EXCEPT ![j] = IF ok THEN "read" ELSE "spawn_failed"]
    /\ UNCHANGED <<store, design, todo, assets, font_map, wait_status, submitResp, resp, design_in, duration_out>>

\* f64 arithmetic of lines 131-132.  A positive finite double is the record
\* [m |-> its significand bits, most significant first and m[1] = 1,
\*  x |-> the binary exponent of m[1]]; F64Zero is 0.0.  Every operation
\* rounds to F64Bits bits, to nearest and ties to even.  Bits are produced six
\* at a time, for operands below 2^24.
F64Bits == 53
F64Zero == [m |-> <<>>, x |-> 0]

\* The six bits of q < 64, and the number that six bits of b from i on spell.
Bits6(q) ==
    <<(q \div 32) % 2, (q \div 16) % 2, (q \div 8) % 2, (q \div 4) % 2, (q \div 2) % 2, q % 2>>
Int6(b, i) ==
    32 * b[i] + 16 * b[i + 1] + 8 * b[i + 2] + 4 * b[i + 3] + 2 * b[i + 4] + b[i + 5]

\* b without its leading zeros (b has a one).
F64Strip(b) ==
    LET first == CHOOSE i \in 1..Len(b) : b[i] = 1 /\ \A k \in 1..(i - 1) : b[k] = 0
    IN  SubSeq(b, first, Len(b))

\* The significand b plus one unit in the last place (b has a zero).
F64Carry(b) ==
    LET last == CHOOSE i \in 1..Len(b) : b[i] = 0 /\ \A k \in (i + 1)..Len(b) : b[k] = 1
    IN  [i \in 1..Len(b) |-> IF i < last THEN b[i] ELSE IF i = last THEN 1 ELSE 0]

\* Rounding of the exact bits b, first bit of exponent x, to F64Bits bits;
\* sticky tells that the exact value has nonzero bits beyond b.
F64Round(b, x, sticky) ==
    IF Len(b) <= F64Bits
    THEN [m |-> b \o [i \in 1..(F64Bits - Len(b)) |-> 0], x |-> x]
    ELSE LET kept == SubSeq(b, 1, F64Bits)
             guard == b[F64Bits + 1]
             rest == sticky \/ \E i \in (F64Bits + 2)..Len(b) : b[i] = 1
             up == guard = 1 /\ (rest \/ kept[F64Bits] = 1)
         IN  IF ~up THEN [m |-> kept, x |-> x]
             ELSE IF \A i \in 1..F64Bits : kept[i] = 1
             THEN [m |-> [i \in 1..F64Bits |-> IF i = 1 THEN 1 ELSE 0], x |-> x + 1]
             ELSE [m |-> F64Carry(kept), x |-> x]

\* 6 * k bits of the binary expansion of r / d after the point, 0 <= r < d.
RECURSIVE F64QuotBits(_, _, _)
F64QuotBits(r, d, k) ==
    IF k = 0 THEN <<>>
    ELSE Bits6((64 * r) \div d) \o F64QuotBits((64 * r) % d, d, k - 1)

\* The remainder that the bits of F64QuotBits(r, d, k) leave.
RECURSIVE F64QuotRem(_, _, _)
F64QuotRem(r, d, k) ==
    IF k = 0 \/ r = 0 THEN r ELSE F64QuotRem((64 * r) % d, d, k - 1)

\* a / d for integers d <= a < 2 * d, first quotient bit of exponent x.
F64DivNormal(a, d, x) ==
    LET k == (F64Bits + 5) \div 6
    IN  F64Round(<<1>> \o F64QuotBits(a - d, d, k), x, F64QuotRem(a - d, d, k) # 0)

\* line 132: n as f64 / total_ms, the quotient of two integers that doubles
\* hold exactly (a > 0, d > 0).
RECURSIVE F64DivInt(_, _, _)
F64DivInt(a, d, x) ==
    IF a < d THEN F64DivInt(2 * a, d, x - 1)
    ELSE IF a >= 2 * d THEN F64DivInt(a, 2 * d, x + 1)
    ELSE F64DivNormal(a, d, x)

\* The bits of c times b (c < 128, Len(b) a multiple of 6), from the six bits
\* that end at position i down, with carry.
RECURSIVE F64TimesChunks(_, _, _, _)
F64TimesChunks(b, c, i, carry) ==
    IF i = 0 THEN <<carry \div 64>> \o Bits6(carry % 64)
    ELSE LET v == Int6(b, i - 5) * c + carry
         IN  F64TimesChunks(b, c, i - 6, v \div 64) \o Bits6(v % 64)

\* The bits of c times the significand b.
F64TimesBits(b, c) ==
    LET pad == (6 - (Len(b) % 6)) % 6
        padded == [i \in 1..pad |-> 0] \o b
    IN  F64Strip(F64TimesChunks(padded, c, Len(padded), 0))

\* line 132: f * 100.0
F64Times(f, c) ==
    IF f = F64Zero THEN F64Zero
    ELSE LET p == F64TimesBits(f.m, c)
         IN  F64Round(p, f.x + Len(p) - Len(f.m), FALSE)

\* The integer that the first k bits of b spell.
RECURSIVE F64Int(_, _)
F64Int(b, k) == IF k = 0 THEN 0 ELSE 2 * F64Int(b, k - 1) + b[k]

\* line 132: as u32 of a double below 2^31: the fraction is dropped.
F64Trunc(f) ==
    IF f = F64Zero \/ f.x < 0 THEN 0 ELSE F64Int(f.m, f.x + 1)

\* line 132: (n as f64 / total_ms) * 100.0
F64Percent(e, total_ms) ==
    IF e = 0 THEN F64Zero ELSE F64Times(F64DivInt(e, total_ms, 0), 100)

\* Percent without the clamp.
PercentNoClamp(n, total_ms) ==
    LET e == IF n > total_ms * 1000 THEN n \div 1000 ELSE n
    IN  F64Trunc(F64Percent(e, total_ms))

\* lines 131-132: the normalisation of n, then the percentage in f64, clamped
\* to [0.0, 100.0] (128.0 and above have exponent 7 or more) and cast to u32.
Percent(n, total_ms) ==
    LET e == IF n > total_ms * 1000 THEN n \div 1000 ELSE n
        p == F64Percent(e, total_ms)
    IN  IF p # F64Zero /\ p.x >= 7 THEN 100
        ELSE IF F64Trunc(p) >= 100 THEN 100
        ELSE F64Trunc(p)

\* Percent of every value a line carries and every duration of a job, each
\* computed once.
PercentOf ==
    [n \in {l.val[1] : l \in {x \in Lines \cup ProgressLines : IsSome(x.val)}},
     t \in {compute_duration_ms(d) : d \in JobDesigns} |-> Percent(n, t)]

\* The loop body of lines 128-135 for one line.
ReadLineOf(j, line) ==
    /\ pc[j] = "read"
    /\ IF line.key = "out_time_ms" /\ IsSome(line.val)
       THEN store' = update(store, j,
                 SetProgress(store[j], PercentOf[line.val[1], compute_duration_ms(design[j])]))
       ELSE UNCHANGED store
    /\ UNCHANGED <<pc, design, todo, assets, font_map, wait_status, submitResp, resp, design_in, duration_out>>

\* lines 127-135: one line of standard output
ReadLine(j) == \E line \in Lines : ReadLineOf(j, line)

\* lines 127-135: one line of ProgressLines, kept in line_in
ProgressReadLine(j) ==
    \E line \in ProgressLines :
        /\ ReadLineOf(j, line)
        /\ line_in' = [line_in EXCEPT ![j] = Some(line)]

\* A loop that goes on calling next_line() after Ok(None) or Err.
ReadEndSpins(j) ==
    /\ pc[j] = "read"
    /\ UNCHANGED <<store, pc, design, todo, assets, font_map, wait_status, submitResp, resp, design_in, duration_out>>

\* line 127: next_line() returns Ok(None) or Err, the loop ends
ReadEnd(j) ==
    /\ pc[j] = "read"
    /\ pc' = [pc EXCEPT ![j] = "wait"]
    /\ UNCHANGED <<store, design, todo, assets, font_map, wait_status, submitResp, resp, design_in, duration_out>>

WaitResults == {"success", "nonzero", "wait_error"}

\* line 138: child.wait()
Wait(j) ==
    /\ pc[j] = "wait"
    /\ \E s \in WaitResults : wait_status' = [wait_status EXCEPT ![j] = Some(s)]
    /\ pc' = [pc EXCEPT ![j] = "match"]
    /\ UNCHANGED <<store, design, todo, assets, font_map, submitResp, resp, design_in, duration_out>>

\* Match whose first arm takes every Ok(s), whatever the exit code.
MatchAnyExit(j) ==
    /\ pc[j] = "match"
    /\ store' = update(store, j,
             CASE wait_status[j] \in {Some("success"), Some("nonzero")} ->
                      SetCompleted(store[j], <<j, "output.mp4">>)
               [] OTHER -> SetFailed(store[j], "wait failed"))
    /\ pc' = [pc EXCEPT ![j] = "done"]
    /\ UNCHANGED <<design, todo, assets, font_map, wait_status, submitResp, resp, design_in, duration_out>>

\* lines 139-146: the update that ends the job
Match(j) ==
    /\ pc[j] = "match"
    /\ store' = update(store, j,
             CASE wait_status[j] = Some("success") -> SetCompleted(store[j], <<j, "output.mp4">>)
               [] wait_status[j] = Some("nonzero") -> SetFailed(store[j], "ffmpeg exit status")
               [] OTHER -> SetFailed(store[j], "wait failed"))
    /\ pc' = [pc EXCEPT ![j] = "done"]
    /\ UNCHANGED <<design, todo, assets, font_map, wait_status, submitResp, resp, design_in, duration_out>>

FailedPcs == {"mkdir_failed", "download_failed", "no_assets", "font_failed",
              "build_failed", "spawn_failed"}

ErrorMessage(p) ==
    CASE p = "mkdir_failed" -> "io error"
      [] p = "download_failed" -> "download failed"
      [] p = "no_assets" -> "no assets with 'src' found"
      [] p = "font_failed" -> "font download failed"
      [] p = "build_failed" -> "build failed"
      [] p = "spawn_failed" -> "spawn failed"

\* Fail whose no-assets path (line 74) does not return and goes on to build.
FailNoReturn(j) ==
    /\ pc[j] \in FailedPcs
    /\ store' = update(store, j, SetFailed(store[j], ErrorMessage(pc[j])))
    /\ pc' = [pc EXCEPT ![j] = IF pc[j] = "no_assets" THEN "build" ELSE "done"]
    /\ UNCHANGED <<design, todo, assets, font_map, wait_status, submitResp, resp, design_in, duration_out>>

\* lines 59, 70, 74, 84, 93, 104: the update of a failure path, then return
Fail(j) ==
    /\ pc[j] \in FailedPcs
    /\ store' = update(store, j, SetFailed(store[j], ErrorMessage(pc[j])))
    /\ pc' = [pc EXCEPT ![j] = "done"]
    /\ UNCHANGED <<design, todo, assets, font_map, wait_status, submitResp, resp, design_in, duration_out>>

Worker(j) ==
    \/ MkDir(j)
    \/ Download(j)
    \/ FontDownload(j)
    \/ Build(j)
    \/ Spawn(j)
    \/ ReadLine(j)
    \/ ReadEnd(j)
    \/ Wait(j)
    \/ Match(j)
    \/ Fail(j)

Workers == \E j \in JobIds : Worker(j)

\* The worker whose progress loop reads the lines of ProgressLines.
ProgressWorker(j) ==
    \/ MkDir(j) /\ UNCHANGED line_in
    \/ Download(j) /\ UNCHANGED line_in
    \/ FontDownload(j) /\ UNCHANGED line_in
    \/ Build(j) /\ UNCHANGED line_in
    \/ Spawn(j) /\ UNCHANGED line_in
    \/ ProgressReadLine(j)
    \/ ReadEnd(j) /\ UNCHANGED line_in
    \/ Wait(j) /\ UNCHANGED line_in
    \/ Match(j) /\ UNCHANGED line_in
    \/ Fail(j) /\ UNCHANGED line_in

----------------------------------------------------------------------------
(* main.rs: the queries *)

\* lines 152-158
GetStatus(t) ==
    /\ LET uid == parse_str(t)
           found == IF uid = None THEN None ELSE get(store, uid[1])
       IN  resp' = Some(
              IF uid = None
              THEN [op |-> "status", id |-> t, job |-> None, code |-> "BAD_REQUEST", body |-> "invalid id"]
              ELSE IF IsSome(found)
              THEN [op |-> "status", id |-> t, job |-> found, code |-> "OK",
                    body |-> to_status_response(found[1], uid[1])]
              ELSE [op |-> "status", id |-> t, job |-> None, code |-> "NOT_FOUND", body |-> "not found"])
    /\ UNCHANGED <<jobVars, design_in, duration_out>>

\* GetOutput that serves the fixed output file of any known job.
GetOutputAnyStatus(t) ==
    /\ LET uid == parse_str(t)
           found == IF uid = None THEN None ELSE get(store, uid[1])
       IN  resp' = Some(
              IF uid = None
              THEN [op |-> "output", id |-> t, job |-> None, code |-> "BAD_REQUEST", body |-> "invalid id"]
              ELSE IF found = None
              THEN [op |-> "output", id |-> t, job |-> None, code |-> "NOT_FOUND", body |-> "not found"]
              ELSE [op |-> "output", id |-> t, job |-> found, code |-> "OK",
                    body |-> <<"bytes", <<uid[1], "output.mp4">>>>])
    /\ UNCHANGED <<jobVars, design_in, duration_out>>

\* lines 160-172; fs::read of the output file succeeds or fails
GetOutput(t) ==
    /\ LET uid == parse_str(t)
           found == IF uid = None THEN None ELSE get(store, uid[1])
       IN  \E readOk \in BOOLEAN :
           resp' = Some(
              IF uid = None
              THEN [op |-> "output", id |-> t, job |-> None, code |-> "BAD_REQUEST", body |-> "invalid id"]
              ELSE IF found = None
              THEN [op |-> "output", id |-> t, job |-> None, code |-> "NOT_FOUND", body |-> "not found"]
              ELSE IF found[1].output_path = None
              THEN [op |-> "output", id |-> t, job |-> found, code |-> "BAD_REQUEST", body |-> "not ready"]
              ELSE IF readOk
              THEN [op |-> "output", id |-> t, job |-> found, code |-> "OK",
                    body |-> <<"bytes", found[1].output_path[1]>>]
              ELSE [op |-> "output", id |-> t, job |-> found, code |-> "INTERNAL_SERVER_ERROR",
                    body |-> "io error"])
    /\ UNCHANGED <<jobVars, design_in, duration_out>>

Queries == \E t \in IdTexts : GetStatus(t) \/ GetOutput(t)

----------------------------------------------------------------------------
(* main.rs lines 100-138 with the external process and its two pipes *)

\* The process is spawned with piped stdout and stderr, and the task that
\* drains stderr is spawned before the worker first awaits (lines 104-122).
PipeSpawn(j) ==
    /\ Spawn(j)
    /\ IF pc'[j] = "read"
       THEN /\ proc' = [proc EXCEPT ![j] = "run"]
            /\ err_task' = [err_task EXCEPT ![j] = "reading"]
       ELSE UNCHANGED <<proc, err_task>>
    /\ UNCHANGED <<out_pipe, err_pipe>>

\* lines 126-135: next_line() returns Ok(Some(line))
PipeReadLine(j) ==
    /\ out_pipe[j] > 0
    /\ ReadLine(j)
    /\ out_pipe' = [out_pipe EXCEPT ![j] = @ - 1]
    /\ UNCHANGED <<proc, err_pipe, err_task>>

\* line 126: next_line() returns Ok(None): the process has closed its stdout
\* and the pipe is drained
PipeReadEof(j) ==
    /\ proc[j] = "exited"
    /\ out_pipe[j] = 0
    /\ ReadEnd(j)
    /\ UNCHANGED pipeVars

\* line 126: next_line() returns Err (the line read is not valid UTF-8): the
\* loop ends, and out_reader stays open until the worker returns
PipeReadErr(j) ==
    /\ out_pipe[j] > 0
    /\ ReadEnd(j)
    /\ out_pipe' = [out_pipe EXCEPT ![j] = @ - 1]
    /\ UNCHANGED <<proc, err_pipe, err_task>>

\* line 138: child.wait() returns once the process has exited
PipeWait(j) ==
    /\ proc[j] = "exited"
    /\ Wait(j)
    /\ UNCHANGED pipeVars

PipeWorker(j) ==
    \/ MkDir(j) /\ UNCHANGED pipeVars
    \/ Download(j) /\ UNCHANGED pipeVars
    \/ FontDownload(j) /\ UNCHANGED pipeVars
    \/ Build(j) /\ UNCHANGED pipeVars
    \/ PipeSpawn(j)
    \/ PipeReadLine(j)
    \/ PipeReadEof(j)
    \/ PipeReadErr(j)
    \/ PipeWait(j)
    \/ Match(j) /\ UNCHANGED pipeVars
    \/ Fail(j) /\ UNCHANGED pipeVars

\* The worker holds out_reader from line 125 until it returns; the drain task
\* holds err_reader until its loop ends.
OutReaderOpen(j) == pc[j] \in {"read", "wait", "match"}
ErrReaderOpen(j) == err_task[j] = "reading"

\* A drain task that marks the job Failed on a line of stderr.
ErrReadLineMarksFailed(j) ==
    /\ err_task[j] = "reading"
    /\ err_pipe[j] > 0
    /\ err_pipe' = [err_pipe EXCEPT ![j] = @ - 1]
    /\ store' = update(store, j, SetFailed(store[j], "ffmpeg stderr"))
    /\ UNCHANGED <<pc, design, todo, assets, font_map, wait_status, submitResp,
                   resp, design_in, duration_out, compileVars, lockVars, line_in, proc, out_pipe, err_task>>

\* lines 111-118: the drain task logs one line of stderr
ErrReadLine(j) ==
    /\ err_task[j] = "reading"
    /\ err_pipe[j] > 0
    /\ err_pipe' = [err_pipe EXCEPT ![j] = @ - 1]
    /\ UNCHANGED <<jobVars, resp, design_in, duration_out, compileVars, lockVars, line_in, proc, out_pipe, err_task>>

\* line 111: next_line() returns Ok(None) or Err: the drain task ends and
\* err_reader is dropped
ErrReadEnd(j) ==
    /\ err_task[j] = "reading"
    /\ \/ proc[j] = "exited" /\ err_pipe[j] = 0
       \/ err_pipe[j] > 0
    /\ err_task' = [err_task EXCEPT ![j] = "done"]
    /\ err_pipe' = [err_pipe EXCEPT ![j] = 0]
    /\ UNCHANGED <<jobVars, resp, design_in, duration_out, compileVars, lockVars, line_in, proc, out_pipe>>

ErrTask(j) == ErrReadLine(j) \/ ErrReadEnd(j)

\* The external process decides what it does next: write a line to stdout,
\* write a line to stderr, or exit, which closes its ends of both pipes.
ProcChoose(j) ==
    /\ proc[j] = "run"
    /\ \E next \in {"write_out", "write_err", "exited"} : proc' = [proc EXCEPT ![j] = next]
    /\ UNCHANGED <<jobVars, resp, design_in, duration_out, compileVars, lockVars, line_in, out_pipe, err_pipe, err_task>>

\* write(2) to the stdout pipe: it returns once the pipe has room, and blocks
\* while the pipe is full and its read end is open.
ProcWriteOut(j) ==
    /\ proc[j] = "write_out"
    /\ IF OutReaderOpen(j)
       THEN /\ out_pipe[j] < PipeCap
            /\ out_pipe' = [out_pipe EXCEPT ![j] = @ + 1]
            /\ proc' = [proc EXCEPT ![j] = "run"]
       ELSE /\ \E next \in {"run", "exited"} : proc' = [proc EXCEPT ![j] = next]
            /\ UNCHANGED out_pipe
    /\ UNCHANGED <<jobVars, resp, design_in, duration_out, compileVars, lockVars, line_in, err_pipe, err_task>>

\* write(2) to the stderr pipe; with the read end closed the write fails
\* (EPIPE) or the process is killed (SIGPIPE).
ProcWriteErr(j) ==
    /\ proc[j] = "write_err"
    /\ IF ErrReaderOpen(j)
       THEN /\ err_pipe[j] < PipeCap
            /\ err_pipe' = [err_pipe EXCEPT ![j] = @ + 1]
            /\ proc' = [proc EXCEPT ![j] = "run"]
       ELSE /\ \E next \in {"run", "exited"} : proc' = [proc EXCEPT ![j] = next]
            /\ UNCHANGED err_pipe
    /\ UNCHANGED <<jobVars, resp, design_in, duration_out, compileVars, lockVars, line_in, out_pipe, err_task>>

Process(j) == ProcChoose(j) \/ ProcWriteOut(j) \/ ProcWriteErr(j)

----------------------------------------------------------------------------
(* jobs.rs lines 60-70 and main.rs lines 152-172 with the store's RwLock *)

\* A guard of the RwLock, named by the task that holds it.  lock is the set of
\* guards held between two steps, that is while their task is suspended:
\* insert, get and update each take their guard as a temporary and drop it
\* before they return (jobs.rs lines 63, 66, 68), so none of them adds one.
ReadGuard(task) == <<task, "read">>
WriteGuard(task) == <<task, "write">>

\* self.0.read().await completes: no write guard is held.
CanRead == \A g \in lock : g[2] # "write"
\* self.0.write().await completes: no guard is held.
CanWrite == lock = {}

\* main.rs lines 49-58, 149 with the write guard of insert (jobs.rs line 63)
LockSubmit(j) ==
    \/ CanWrite /\ \E d \in JobDesigns : SubmitInsert(j, d)
    \/ SubmitSpawn(j)

\* The worker: each update takes the write guard (jobs.rs line 68); the steps
\* between two updates are the worker's I/O (create_dir_all, the downloads,
\* spawn, next_line, wait).
LockWorker(j) ==
    \/ MkDir(j) /\ UNCHANGED pipeVars
    \/ Download(j) /\ UNCHANGED pipeVars
    \/ FontDownload(j) /\ UNCHANGED pipeVars
    \/ CanWrite /\ Build(j) /\ UNCHANGED pipeVars
    \/ PipeSpawn(j)
    \/ CanWrite /\ PipeReadLine(j)
    \/ PipeReadEof(j)
    \/ PipeReadErr(j)
    \/ PipeWait(j)
    \/ CanWrite /\ Match(j) /\ UNCHANGED pipeVars
    \/ CanWrite /\ Fail(j) /\ UNCHANGED pipeVars

\* main.rs lines 152-158 with the read guard of get (jobs.rs line 66)
LockGetStatus(t) == CanRead /\ GetStatus(t)

\* The responses of get_output (main.rs lines 160-172).
OutputResponse(t, found, code, body) ==
    [op |-> "output", id |-> t, job |-> found, code |-> code, body |-> body]

\* OutputGet whose read guard lives until the handler returns.
OutputGetKeepsGuard(t) ==
    /\ out_req = None
    /\ CanRead
    /\ LET uid == parse_str(t)
           found == IF uid = None THEN None ELSE get(store, uid[1])
       IN  IF uid = None
           THEN /\ resp' = Some(OutputResponse(t, None, "BAD_REQUEST", "invalid id"))
                /\ UNCHANGED <<lock, out_req>>
           ELSE IF found = None
           THEN /\ resp' = Some(OutputResponse(t, None, "NOT_FOUND", "not found"))
                /\ UNCHANGED <<lock, out_req>>
           ELSE IF found[1].output_path = None
           THEN /\ resp' = Some(OutputResponse(t, found, "BAD_REQUEST", "not ready"))
                /\ UNCHANGED <<lock, out_req>>
           ELSE /\ out_req' = Some([id |-> t, job |-> found])
                /\ lock' = lock \cup {ReadGuard("get_output")}
                /\ UNCHANGED resp
    /\ UNCHANGED <<jobVars, design_in, duration_out>>

\* main.rs lines 161-163: the identifier is parsed and the record cloned out
\* of the store; get has dropped its guard when it returns.  The handler
\* answers at once (lines 161, 168, 170) or goes on to read the file.
OutputGet(t) ==
    /\ out_req = None
    /\ CanRead
    /\ LET uid == parse_str(t)
           found == IF uid = None THEN None ELSE get(store, uid[1])
       IN  IF uid = None
           THEN /\ resp' = Some(OutputResponse(t, None, "BAD_REQUEST", "invalid id"))
                /\ UNCHANGED <<lock, out_req>>
           ELSE IF found = None
           THEN /\ resp' = Some(OutputResponse(t, None, "NOT_FOUND", "not found"))
                /\ UNCHANGED <<lock, out_req>>
           ELSE IF found[1].output_path = None
           THEN /\ resp' = Some(OutputResponse(t, found, "BAD_REQUEST", "not ready"))
                /\ UNCHANGED <<lock, out_req>>
           ELSE /\ out_req' = Some([id |-> t, job |-> found])
                /\ UNCHANGED <<lock, resp>>
    /\ UNCHANGED <<jobVars, design_in, duration_out>>

\* main.rs lines 164-167: tokio::fs::read(&path).await completes and the
\* handler returns, dropping whatever it still holds.
OutputRead ==
    /\ out_req # None
    /\ \E readOk \in BOOLEAN :
          resp' = Some(
              IF readOk
              THEN OutputResponse(out_req[1].id, out_req[1].job, "OK",
                                  <<"bytes", out_req[1].job[1].output_path[1]>>)
              ELSE OutputResponse(out_req[1].id, out_req[1].job, "INTERNAL_SERVER_ERROR", "io error"))
    /\ out_req' = None
    /\ lock' = lock \ {ReadGuard("get_output")}
    /\ UNCHANGED <<jobVars, design_in, duration_out>>

----------------------------------------------------------------------------
(* The compiler functions applied to a design *)

ComputeDuration ==
    /\ duration_out = None
    /\ duration_out' = Some(compute_duration_ms(design_in))
    /\ UNCHANGED <<jobVars, resp, design_in>>

\* main.rs lines 61-73 when every download succeeds: the items with a source,
\* each with the index it is given.
ResolveAssets(d) == [i \in 1..Len(SrcItems(d)) |-> <<i - 1, SrcItems(d)[i]>>]

\* main.rs lines 77-88 when every download succeeds: the keys of font_map.
ResolveFonts(d) ==
    { FontItems(d)[i].id[1] : i \in { k \in 1..Len(FontItems(d)) : IsSome(FontItems(d)[k].id) } }

\* main.rs lines 61-94 for a worker none of whose downloads fails.
CompileDesign(d) == build_ffmpeg_command(d, ResolveAssets(d), ResolveFonts(d))

\* The Designs equal to d: the keyed mapping is a HashMap, equal to every map
\* of the same entries, whatever the order in which values() enumerates them.
EqualDesigns(d) ==
    { Design(d.trackItems, [i \in 1..Len(d.trackItemsMap) |-> d.trackItemsMap[p[i]]]) :
        p \in Permutations(1..Len(d.trackItemsMap)) }

\* A worker compiles design_in (main.rs line 74: only with an asset).
Compile ==
    /\ built_out = None
    /\ ResolveAssets(design_in) # <<>>
    /\ built_out' = Some(CompileDesign(design_in))
    /\ UNCHANGED <<jobVars, resp, design_in, duration_out, rebuilt_out, pipeVars, lockVars, line_in>>

\* The worker of a second job compiles a Design equal to design_in.
Recompile ==
    /\ built_out # None
    /\ rebuilt_out = None
    /\ \E d \in EqualDesigns(design_in) : rebuilt_out' = Some(CompileDesign(d))
    /\ UNCHANGED <<jobVars, resp, design_in, duration_out, built_out, pipeVars, lockVars, line_in>>

----------------------------------------------------------------------------
(* Specifications *)

Submit(ids) ==
    \E j \in ids : (\E d \in JobDesigns : SubmitInsert(j, d)) \/ SubmitSpawn(j)

\* The service without queries: every identifier is submitted.
Next ==
    \/ Submit(JobIds) /\ UNCHANGED <<compileVars, pipeVars, lockVars, line_in>>
    \/ Workers /\ UNCHANGED <<compileVars, pipeVars, lockVars, line_in>>

Spec == Init /\ [][Next]_vars

\* The service with status and output queries.
NextQueries ==
    \/ Submit(KnownIds) /\ UNCHANGED <<compileVars, pipeVars, lockVars, line_in>>
    \/ Workers /\ UNCHANGED <<compileVars, pipeVars, lockVars, line_in>>
    \/ Queries /\ UNCHANGED <<compileVars, pipeVars, lockVars, line_in>>

SpecQueries == Init /\ [][NextQueries]_vars

\* compute_duration_ms on every design of CompilerDesigns.
InitDuration ==
    /\ InitJobs
    /\ design_in \in CompilerDesigns
    /\ duration_out = None
    /\ built_out = None
    /\ rebuilt_out = None

NextDuration == ComputeDuration /\ UNCHANGED <<compileVars, pipeVars, lockVars, line_in>>

SpecDuration == InitDuration /\ [][NextDuration]_vars

\* The service with the external process of a job, its pipes and its drain
\* task, and with queries: one job is submitted and followed, the other
\* identifiers stay unknown.
PipeJobs == {1}

NextPipes ==
    \/ Submit(PipeJobs) /\ UNCHANGED <<compileVars, pipeVars, lockVars, line_in>>
    \/ \E j \in PipeJobs : PipeWorker(j) /\ UNCHANGED <<compileVars, lockVars, line_in>>
    \/ \E j \in PipeJobs : ErrTask(j)
    \/ \E j \in PipeJobs : Process(j)
    \/ Queries /\ UNCHANGED <<compileVars, pipeVars, lockVars, line_in>>

SpecPipes == Init /\ [][NextPipes]_vars

\* The tokio runtime polls every task that is ready: the handler, the worker
\* and the drain task each take their next step once it is possible.  Nothing
\* is assumed of the external process.
FairPipes ==
    \A j \in PipeJobs :
        /\ WF_vars(SubmitSpawn(j) /\ UNCHANGED <<compileVars, pipeVars, lockVars, line_in>>)
        /\ WF_vars(PipeWorker(j) /\ UNCHANGED <<compileVars, lockVars, line_in>>)
        /\ WF_vars(ErrTask(j))

SpecPipesFair == SpecPipes /\ FairPipes

\* The service with the store's lock: the job of SpecPipes with its process
\* and drain task, status queries, and output queries whose file read is a
\* step of its own.
NextLock ==
    \/ \E j \in PipeJobs : LockSubmit(j) /\ UNCHANGED <<compileVars, pipeVars, lockVars, line_in>>
    \/ \E j \in PipeJobs : LockWorker(j) /\ UNCHANGED <<compileVars, lockVars, line_in>>
    \/ \E j \in PipeJobs : ErrTask(j)
    \/ \E j \in PipeJobs : Process(j)
    \/ \E t \in IdTexts : LockGetStatus(t) /\ UNCHANGED <<compileVars, pipeVars, lockVars, line_in>>
    \/ \E t \in IdTexts : OutputGet(t) /\ UNCHANGED <<compileVars, pipeVars, line_in>>
    \/ OutputRead /\ UNCHANGED <<compileVars, pipeVars, line_in>>

SpecLock == Init /\ [][NextLock]_vars

\* One job and its progress loop, over the lines of ProgressLines.
NextProgress ==
    \/ Submit(PipeJobs) /\ UNCHANGED <<compileVars, pipeVars, lockVars, line_in>>
    \/ \E j \in PipeJobs : ProgressWorker(j) /\ UNCHANGED <<compileVars, pipeVars, lockVars>>

SpecProgress == Init /\ [][NextProgress]_vars

\* The compilation of every design of GraphDesigns, by two workers.
InitCompile ==
    /\ InitJobs
    /\ design_in \in GraphDesigns
    /\ duration_out = None
    /\ built_out = None
    /\ rebuilt_out = None

NextCompile == Compile \/ Recompile

SpecCompile == InitCompile /\ [][NextCompile]_vars

----------------------------------------------------------------------------
(* Properties *)

Rank(status) ==
    CASE status = "Pending" -> 0
      [] status = "Running" -> 1
      [] status \in {"Completed", "Failed"} -> 2

Stored == DOMAIN store

\* C1: the statuses stored for a job form a subsequence of Pending, Running,
\* then Completed or Failed: a record enters the store Pending, is never
\* removed, and every change of its status moves strictly forward, so Pending
\* is never revisited, Running never follows a terminal status, and Completed
\* and Failed never follow one another.
C1_StatusMovesForward ==
    [][ /\ \A j \in Stored :
             /\ j \in DOMAIN store'
             /\ store'[j].status # store[j].status
                   => Rank(store[j].status) < Rank(store'[j].status)
        /\ \A j \in DOMAIN store' \ Stored : store'[j].status = "Pending" ]_vars

C1_Witness ==
    \E j \in Stored, k \in Stored :
        store[j].status = "Completed" /\ store[k].status = "Failed" /\ pc[k] = "done"

\* C2 (as claimed): while a job is Running its stored progress never decreases
\* from one update to the next, and a Completed job has progress 100.
C2_ProgressNeverDecreases ==
    [][ \A j \in Stored :
          /\ (store[j].status = "Running" /\ store'[j].status = "Running")
                => store'[j].progress >= store[j].progress
          /\ store'[j].status = "Completed" => store'[j].progress = 100 ]_vars

Snapshot(job) ==
    /\ job.status = "Completed" => job.progress = 100 /\ IsSome(job.output_path)
    /\ job.status = "Failed" => IsSome(job.error)
    /\ job.status \in {"Pending", "Running"} => job.output_path = None /\ job.error = None

\* C3: every query that produces a response carries the value JobStore::get
\* returned, and that value is the record as the store holds it at the read,
\* i.e. after the updates the worker has applied so far; no read sees
\* Completed without progress 100 and the output path, or Failed without the
\* error message.
C3_ReadsAreSnapshots ==
    [][ resp' # resp =>
          LET r == resp'[1]
              uid == parse_str(r.id)
          IN  /\ r.job = (IF uid = None THEN None ELSE get(store, uid[1]))
              /\ IsSome(r.job) => Snapshot(r.job[1]) ]_vars

\* A read that saw the job Running at progress 50, kept while the worker went
\* on to complete the job.
C3_Witness ==
    /\ resp # None
    /\ resp[1].op = "status"
    /\ IsSome(resp[1].job)
    /\ resp[1].job[1].status = "Running"
    /\ resp[1].job[1].progress = 50
    /\ store[resp[1].id.value].status = "Completed"

ErrorPending(j) ==
    \/ pc[j] \in FailedPcs
    \/ pc[j] = "match" /\ wait_status[j] \in {Some("nonzero"), Some("wait_error")}

\* C4: when an error of any stage is pending in a job's worker, the worker's
\* next step sets the job Failed with an error message and leaves the
\* progress as it was.
C4_ErrorSetsFailed ==
    [][ \A j \in Stored :
          (ErrorPending(j) /\ (pc'[j] # pc[j] \/ store'[j] # store[j]))
             => /\ store'[j].status = "Failed"
                /\ IsSome(store'[j].error)
                /\ store'[j].progress = store[j].progress
                /\ pc'[j] = "done" ]_vars

C4_Witness ==
    \E j \in Stored :
        /\ pc[j] = "done"
        /\ store[j].status = "Failed"
        /\ store[j].progress = 50
        /\ wait_status[j] = Some("nonzero")

\* C5: a job becomes Completed only in the step that follows child.wait()
\* returning a success exit status, and that update sets progress 100 and
\* the output path; after a non-zero exit or a wait failure the job is never
\* Completed.
C5_CompletedOnlyAfterSuccess ==
    [][ \A j \in DOMAIN store' :
          /\ (store'[j].status = "Completed" /\ (j \in Stored => store[j].status # "Completed"))
                => /\ pc[j] = "match"
                   /\ wait_status[j] = Some("success")
                   /\ store'[j].progress = 100
                   /\ IsSome(store'[j].output_path)
          /\ wait_status'[j] \in {Some("nonzero"), Some("wait_error")}
                => store'[j].status # "Completed" ]_vars

C5_Witness ==
    \E j \in Stored :
        store[j].status = "Completed" /\ wait_status[j] = Some("success") /\ pc[j] = "done"

\* C6: every stored record, and the status response made from it, has a
\* progress in 0..100, an output reference exactly when Completed and an
\* error exactly when Failed.
C6_RecordShape ==
    \A j \in Stored :
        LET job == store[j]
            r == to_status_response(job, j)
        IN  /\ job.progress \in 0..100
            /\ r.progress \in 0..100
            /\ IsSome(job.output_path) <=> job.status = "Completed"
            /\ IsSome(r.url) <=> r.status = "COMPLETED"
            /\ IsSome(job.error) <=> job.status = "Failed"
            /\ IsSome(r.error) <=> r.status = "FAILED"

C6_Witness ==
    \E j \in Stored, k \in Stored :
        /\ store[j].status = "Completed"
        /\ store[k].status = "Failed"
        /\ store[k].progress = 100

ClientErrors == {"BAD_REQUEST", "NOT_FOUND"}

\* C7: an output query answers with the artifact only if the job is Completed
\* when it is read; for a malformed or unknown identifier and for a job that
\* is Pending, Running or Failed it answers a client error and no bytes.
C7_OutputOnlyWhenCompleted ==
    [][ (resp' # resp /\ resp'[1].op = "output") =>
          LET r == resp'[1]
              uid == parse_str(r.id)
              found == IF uid = None THEN None ELSE get(store, uid[1])
          IN  IF IsSome(found) /\ found[1].status = "Completed"
              THEN r.code = "OK" => r.body = <<"bytes", found[1].output_path[1]>>
              ELSE r.code \in ClientErrors /\ r.body \in {"invalid id", "not found", "not ready"} ]_vars

\* The output of a job that ended Failed is asked for and refused.
C7_Witness ==
    /\ resp # None
    /\ resp[1].op = "output"
    /\ resp[1].code = "BAD_REQUEST"
    /\ IsSome(resp[1].job)
    /\ resp[1].job[1].status = "Failed"

Visual(as) == { i \in 1..Len(as) : as[i][2].kind \in {"Video", "Image"} }

Launched(j) == pc[j] \in {"spawn", "read", "wait", "match"}

\* C8 (as claimed): a job whose resolved assets hold no Video or Image item
\* fails compilation: it is never Running or Completed and its worker never
\* reaches the spawn of the external process.
C8_NoVisualNeverRuns ==
    \A j \in Stored :
        (pc[j] \notin {"idle", "inserted", "mkdir", "download"} \cup FailedPcs /\ Visual(assets[j]) = {})
           => /\ store[j].status \notin {"Running", "Completed"}
              /\ ~Launched(j)
              /\ pc[j] = "build" => ~build_ffmpeg_command(design[j], assets[j], font_map[j]).ok

WorkerLocal(j) == <<pc[j], todo[j], assets[j], font_map[j], wait_status[j]>>

WorkerPcs == {"mkdir", "download", "fonts", "build", "spawn", "read", "wait", "match"} \cup FailedPcs

\* C9: a step of job j's worker, failure paths included, leaves the record of
\* every other job as it was and adds or removes no record; and whenever the
\* worker of j exists, submit has returned the identifier of j.
C9_WorkerTouchesOwnEntryOnly ==
    [][ \A j \in JobIds :
          /\ (pc[j] \in WorkerPcs /\ (WorkerLocal(j)' # WorkerLocal(j) \/ store'[j] # store[j]))
                => /\ DOMAIN store' = DOMAIN store
                   /\ \A k \in Stored \ {j} : store'[k] = store[k]
          /\ pc'[j] \in WorkerPcs \cup {"done"}
                => submitResp'[j] = Some([ok |-> TRUE, jobId |-> j]) ]_vars

\* One job has ended Failed while another one is Running with progress.
C9_Witness ==
    \E j \in Stored, k \in Stored :
        /\ j # k
        /\ store[j].status = "Failed" /\ pc[j] = "done"
        /\ store[k].status = "Running" /\ store[k].progress = 50

\* The values some item of the authoritative collection sets as Trim.to or
\* Display.to.
Ends(d) ==
    LET its == Items(d)
    IN  { its[i].trim.to[1] : i \in { n \in 1..Len(its) : IsSome(its[n].trim.to) } }
        \cup { its[i].display.to[1] : i \in { n \in 1..Len(its) : IsSome(its[n].display.to) } }

Max(S) == CHOOSE m \in S : \A x \in S : x <= m

----------------------------------------------------------------------------
(* Properties of the compiled command *)

Built == built_out[1]
BuiltAssets == ResolveAssets(design_in)
FiltersOf(cmd, kinds) == { i \in 1..Len(cmd.filter_parts) : cmd.filter_parts[i].f \in kinds }
AudioAssets == { i \in 1..Len(BuiltAssets) : BuiltAssets[i][2].kind = "Audio" }
AudioBranchLabels == { <<"a", BuiltAssets[i][1] + 1>> : i \in AudioAssets }
MapsAudioOut(cmd) == \E i \in 1..Len(cmd.maps) : cmd.maps[i] = [src |-> <<"aout">>, kind |-> "a"]

\* C11: with N audio assets, N >= 2 gives exactly one mix filter whose inputs
\* are exactly the N audio branch labels, that declares N inputs, has
\* normalization disabled and whose output is the mapped audio; N = 1 gives
\* one pass-through filter from the single branch to the mapped audio; N = 0
\* gives no audio filter and the audio mapping is the optional audio stream of
\* input 0.
C11_AudioMix ==
    built_out # None =>
        LET cmd == Built
            N == Cardinality(AudioAssets)
            mixes == FiltersOf(cmd, {"amix"})
            nulls == FiltersOf(cmd, {"anull"})
        IN  /\ Cardinality(FiltersOf(cmd, {"achain"})) = N
            /\ N >= 2 =>
                  /\ Cardinality(mixes) = 1 /\ nulls = {}
                  /\ \A i \in mixes :
                        /\ { cmd.filter_parts[i].ins[k] : k \in 1..Len(cmd.filter_parts[i].ins) }
                              = AudioBranchLabels
                        /\ Len(cmd.filter_parts[i].ins) = N
                        /\ cmd.filter_parts[i].inputs = N
                        /\ cmd.filter_parts[i].normalize = 0
                        /\ cmd.filter_parts[i].out = <<"aout">>
                  /\ MapsAudioOut(cmd) /\ ~cmd.map_base_audio
            /\ N = 1 =>
                  /\ Cardinality(nulls) = 1 /\ mixes = {}
                  /\ \A i \in nulls :
                        /\ { cmd.filter_parts[i].ins[k] : k \in 1..Len(cmd.filter_parts[i].ins) }
                              = AudioBranchLabels
                        /\ Len(cmd.filter_parts[i].ins) = 1
                        /\ cmd.filter_parts[i].out = <<"aout">>
                  /\ MapsAudioOut(cmd) /\ ~cmd.map_base_audio
            /\ N = 0 =>
                  /\ mixes = {} /\ nulls = {}
                  /\ \A i \in 1..Len(cmd.maps) : cmd.maps[i].kind # "a"
                  /\ cmd.map_base_audio

\* A design of three audio assets has been compiled into a mix of three inputs.
C11_Witness ==
    /\ built_out # None
    /\ Cardinality(AudioAssets) = 3
    /\ \E i \in FiltersOf(Built, {"amix"}) : Built.filter_parts[i].inputs = 3

VisualAssets == { i \in 1..Len(BuiltAssets) : BuiltAssets[i][2].kind \in {"Video", "Image"} }
ChainsOf(cmd, i) ==
    { k \in FiltersOf(cmd, {"chain"}) : cmd.filter_parts[k].out = <<"v", BuiltAssets[i][1] + 1>> }
AlphaSteps(chain) ==
    { n \in 1..Len(chain.steps) : chain.steps[n].name = "colorchannelmixer" }
\* The item's opacity in tenths of a percent, 100 when absent: in thousandths,
\* its opacity divided by 100.
OpacityOf(it) == unwrap_or(ItemOpacity(it), 1000)

\* C12 (as stated): the chain of every visual asset has an alpha-multiply step
\* exactly when the item's opacity is below 99.9, and the factor of that step
\* is exactly opacity / 100.
C12_AlphaIsOpacity ==
    built_out # None =>
        \A i \in VisualAssets :
            /\ Cardinality(ChainsOf(Built, i)) = 1
            /\ \A k \in ChainsOf(Built, i) :
                 LET chain == Built.filter_parts[k]
                     o == OpacityOf(BuiltAssets[i][2])
                 IN  /\ (AlphaSteps(chain) # {}) <=> (o < 999)
                     /\ \A n \in AlphaSteps(chain) : chain.steps[n].aa = o

\* C12 (amended): the chain of every visual asset has exactly one
\* alpha-multiply step when the item's opacity is below 99.9 and none
\* otherwise, and the factor of that step is opacity / 100 clamped to [0, 1]:
\* 0 for a negative opacity.
C12_AlphaIsClampedOpacity ==
    built_out # None =>
        \A i \in VisualAssets :
            /\ Cardinality(ChainsOf(Built, i)) = 1
            /\ \A k \in ChainsOf(Built, i) :
                 LET chain == Built.filter_parts[k]
                     o == OpacityOf(BuiltAssets[i][2])
                 IN  /\ Cardinality(AlphaSteps(chain)) = (IF o < 999 THEN 1 ELSE 0)
                     /\ \A n \in AlphaSteps(chain) :
                          chain.steps[n].aa = (IF o < 0 THEN 0 ELSE o)

\* A design has been compiled in which one visual asset of negative opacity
\* got the factor 0 and another, of opacity 99.9, got no alpha step.
C12_Witness ==
    /\ built_out # None
    /\ \E i \in VisualAssets :
          /\ OpacityOf(BuiltAssets[i][2]) < 0
          /\ \E k \in ChainsOf(Built, i) :
               \E n \in AlphaSteps(Built.filter_parts[k]) : Built.filter_parts[k].steps[n].aa = 0
    /\ \E i \in VisualAssets :
          /\ OpacityOf(BuiltAssets[i][2]) = 999
          /\ \E k \in ChainsOf(Built, i) : AlphaSteps(Built.filter_parts[k]) = {}

OverlaysOf(cmd, i) ==
    { k \in FiltersOf(cmd, {"overlay"}) :
        cmd.filter_parts[k].ins[2] = <<"v", BuiltAssets[i][1] + 1>> }
Dist(a, b) == IF a >= b THEN a - b ELSE b - a
\* The pixel value of a position string: the integer nearest to the number
\* before "px" (given in tenths; of two equally near the one farther from 0),
\* and 0 for a missing string, a string without the suffix or without a number.
PixelRange == (0 - 10)..110
PixelValue(s) ==
    IF s = None THEN 0
    ELSE IF ~s[1].px \/ s[1].num = None THEN 0
    ELSE CHOOSE n \in PixelRange :
            \/ Dist(10 * n, s[1].num[1]) < 5
            \/ /\ Dist(10 * n, s[1].num[1]) = 5
               /\ Dist(10 * n, 0) > Dist(s[1].num[1], 0)
\* The labels a running composite can have: the canvas or the output of an
\* earlier overlay or text filter.
CompositeBefore(cmd, k) ==
    {InStream(0, "v")} \cup { cmd.filter_parts[n].out : n \in { n \in FiltersOf(cmd, {"overlay", "drawtext"}) : n < k } }

\* C13: for every visual asset the graph has exactly one overlay of that item
\* onto the running composite, placed at the pixel values parsed from left and
\* top (0 when missing or unparseable) and enabled from Display.from, else
\* Trim.from, else 0, to Display.to, else Trim.to, else the output duration.  A
\* design of one image with left 50px, top 100px, opacity 50 and no windows
\* compiles to exactly one overlay, onto the canvas, at (50, 100), with alpha
\* factor 0.5 and window 0 s to 10 s.
C13_OneOverlayPerVisual ==
    built_out # None =>
        /\ \A i \in VisualAssets :
              /\ Cardinality(OverlaysOf(Built, i)) = 1
              /\ \A k \in OverlaysOf(Built, i) :
                   LET ov == Built.filter_parts[k]
                       it == BuiltAssets[i][2]
                   IN  /\ ov.ins[1] \in CompositeBefore(Built, k)
                       /\ ov.x = PixelValue(ItemLeft(it))
                       /\ ov.y = PixelValue(ItemTop(it))
                       /\ ov.start = (IF it.display.from # None THEN it.display.from[1]
                                      ELSE IF it.trim.from # None THEN it.trim.from[1]
                                      ELSE 0)
                       /\ ov.end = (IF it.display.to # None THEN it.display.to[1]
                                    ELSE IF it.trim.to # None THEN it.trim.to[1]
                                    ELSE compute_duration_ms(design_in))
        /\ Cardinality(FiltersOf(Built, {"overlay"})) = Cardinality(VisualAssets)
        /\ design_in = Design(<<ImgHalf>>, <<>>) =>
              /\ Len(Built.filter_parts) = 2
              /\ Built.filter_parts[1].f = "chain"
              /\ \E n \in 1..Len(Built.filter_parts[1].steps) :
                    Built.filter_parts[1].steps[n] = [name |-> "colorchannelmixer", aa |-> 500]
              /\ Built.filter_parts[2].f = "overlay"
              /\ Built.filter_parts[2].ins = <<InStream(0, "v"), Built.filter_parts[1].out>>
              /\ Built.filter_parts[2].x = 50 /\ Built.filter_parts[2].y = 100
              /\ Built.filter_parts[2].start = 0 /\ Built.filter_parts[2].end = 10000

\* The design of the single half-transparent image has been compiled into one
\* overlay at (50, 100).
C13_Witness ==
    /\ built_out # None
    /\ design_in = Design(<<ImgHalf>>, <<>>)
    /\ \E i \in VisualAssets : \E k \in OverlaysOf(Built, i) :
          Built.filter_parts[k].x = 50 /\ Built.filter_parts[k].y = 100

\* C14: two runs on equal Designs (equal ordered sequence, equal keyed
\* mapping), with the same resolved paths and font map, compile the same
\* argument list, also when the ordered sequence is empty and the items come
\* from the keyed mapping.
C14_SameArguments ==
    (built_out # None /\ rebuilt_out # None) => rebuilt_out = built_out

\* Two runs have compiled a Design whose items come from a keyed mapping of
\* two entries.
C14_Witness ==
    /\ built_out # None /\ rebuilt_out # None
    /\ design_in.trackItems = <<>>
    /\ Len(design_in.trackItemsMap) = 2

IsComposite(flt) == flt.f \in {"overlay", "drawtext"}
\* The filters that produce a composite, in the order of the graph.
CompositeFilters(cmd) == SelectSeq(cmd.filter_parts, IsComposite)
\* The text items that are drawn: those with an identifier that has a font.
DrawnTexts ==
    LET Drawn(it) == it.kind = "Text" /\ it.id # None /\ it.id[1] \in ResolveFonts(design_in)
    IN  SelectSeq(Items(design_in), Drawn)
VisualSeq ==
    LET IsVisual(a) == a[2].kind \in {"Video", "Image"}
    IN  SelectSeq(BuiltAssets, IsVisual)

\* C18: the video composite is one linear chain: it starts at the canvas
\* (input 0), overlays each visual asset onto the previous composite in
\* ascending input index, applies every text overlay after the last visual
\* overlay in the item order of the authoritative collection, and the video
\* stream mapped to the output is the last element of the chain, the canvas
\* itself when nothing was overlaid.
C18_LinearChain ==
    built_out # None =>
        LET comp == CompositeFilters(Built)
            nv == Len(VisualSeq)
            video == { i \in 1..Len(Built.maps) : Built.maps[i].kind = "v" }
        IN  /\ Len(comp) = nv + Len(DrawnTexts)
            /\ \A k \in 1..Len(comp) :
                  /\ comp[k].ins[1] = (IF k = 1 THEN InStream(0, "v") ELSE comp[k - 1].out)
                  /\ k <= nv =>
                        /\ comp[k].f = "overlay"
                        /\ comp[k].ins[2] = <<"v", VisualSeq[k][1] + 1>>
                        /\ k > 1 => VisualSeq[k][1] > VisualSeq[k - 1][1]
                  /\ k > nv =>
                        /\ comp[k].f = "drawtext"
                        /\ comp[k].fontfile = DrawnTexts[k - nv].id[1]
                        /\ comp[k].x = PixelValue(ItemLeft(DrawnTexts[k - nv]))
            /\ video = {1}
            /\ Built.maps[1].src = (IF comp = <<>> THEN InStream(0, "v") ELSE comp[Len(comp)].out)

\* A design has been compiled whose chain has two visual overlays and then a
\* text overlay.
C18_Witness ==
    /\ built_out # None
    /\ Len(VisualSeq) = 2
    /\ Len(DrawnTexts) = 1
    /\ Len(CompositeFilters(Built)) = 3
    /\ Built.maps[1].src = <<"txt", DrawnTexts[1].id[1]>>

Produced(cmd) == [k \in 1..Len(cmd.filter_parts) |-> cmd.filter_parts[k].out]

\* C20: the compiled graph is well formed for every design: there are
\* 1 + (number of resolved assets) inputs, the asset of index i being input
\* i + 1, the one its filters reference; every label a filter consumes is an
\* input stream or was produced by an earlier filter; and every produced label
\* differs from every other produced label, the text overlay labels derived
\* from item identifiers included.
C20_WellFormedGraph ==
    built_out # None =>
        LET cmd == Built
            np == Len(cmd.filter_parts)
        IN  /\ Len(cmd.inputs) = 1 + Len(BuiltAssets)
            /\ \A i \in 1..Len(BuiltAssets) :
                  /\ BuiltAssets[i][1] = i - 1
                  /\ cmd.inputs[BuiltAssets[i][1] + 2] = BuiltAssets[i][2].kind
                  /\ \A k \in ChainsOf(cmd, i) :
                        cmd.filter_parts[k].ins = <<InStream(BuiltAssets[i][1] + 1, "v")>>
            /\ \A k \in 1..np : \A n \in 1..Len(cmd.filter_parts[k].ins) :
                  \/ \E i \in 0..(Len(cmd.inputs) - 1) :
                        cmd.filter_parts[k].ins[n] \in {InStream(i, "v"), InStream(i, "a")}
                  \/ \E e \in 1..(k - 1) : cmd.filter_parts[e].out = cmd.filter_parts[k].ins[n]
            /\ \A k \in 1..np : \A e \in 1..np :
                  k # e => Produced(cmd)[k] # Produced(cmd)[e]

----------------------------------------------------------------------------
(* Properties of the worker's steps *)

\* The positions at which the external process of the job exists.
ProcessPcs == {"read", "wait", "match"}
DownloadFailurePcs == {"mkdir_failed", "download_failed", "no_assets", "font_failed", "build_failed"}
AssetsDone(j) ==
    /\ Len(assets[j]) = Len(SrcItems(design[j]))
    /\ \A i \in 1..Len(assets[j]) : assets[j][i][2] = SrcItems(design[j])[i]
FontsDone(j) == font_map[j] = ResolveFonts(design[j])

OrderedState ==
    \A j \in JobIds :
        /\ pc[j] \in {"fonts", "build", "spawn"} \cup ProcessPcs => AssetsDone(j)
        /\ pc[j] = "fonts" => font_map[j] \subseteq ResolveFonts(design[j])
        /\ pc[j] \in {"build", "spawn"} \cup ProcessPcs => FontsDone(j)
        /\ pc[j] \in {"mkdir", "download", "fonts", "build"} => store[j].status = "Pending"
        /\ pc[j] \in {"spawn"} \cup ProcessPcs =>
              /\ store[j].status = "Running"
              /\ build_ffmpeg_command(design[j], assets[j], font_map[j]).ok

OrderedStep ==
    \A j \in JobIds :
        /\ pc[j] = "download" => pc'[j] \in {"download", "fonts", "build", "download_failed"}
        /\ pc[j] = "fonts" => pc'[j] \in {"fonts", "build", "font_failed"}
        /\ pc[j] = "build" => pc'[j] \in {"build", "spawn", "build_failed"}
        /\ pc[j] \notin ProcessPcs /\ pc'[j] \in ProcessPcs =>
              pc[j] = "spawn" /\ store[j].status = "Running"
        /\ (j \in DOMAIN store /\ store[j].status # "Running" /\ store'[j].status = "Running") =>
              pc[j] = "build" /\ pc'[j] = "spawn"
        /\ pc[j] \in DownloadFailurePcs => pc'[j] \in {pc[j], "done"}

\* C15: the worker's steps are strictly ordered: every asset download, then
\* every font download, then the compilation, then the update of the status
\* to Running, then the spawn of the process.  The status is Running before
\* the process exists, and no process is spawned for a job that failed a
\* download or the compilation.
C15_StepsInOrder == []OrderedState /\ [][OrderedStep]_vars

\* The process of a job with an asset and a font exists, and the job is Running.
C15_Witness ==
    \E j \in JobIds :
        /\ pc[j] = "read"
        /\ store[j].status = "Running"
        /\ assets[j] # <<>>
        /\ font_map[j] # {}

----------------------------------------------------------------------------
(* Properties of the process, its pipes and the drain task *)

\* The process is blocked in a write to a full pipe whose read end is open.
BlockedOnStdout(j) == proc[j] = "write_out" /\ out_pipe[j] = PipeCap /\ OutReaderOpen(j)
BlockedOnStderr(j) == proc[j] = "write_err" /\ err_pipe[j] = PipeCap /\ ErrReaderOpen(j)
\* A task of the job is in the loop that reads the pipe.
StdoutIsRead(j) == pc[j] = "read"
StderrIsRead(j) == err_task[j] = "reading"

\* C16: with bounded pipes and any interleaving of the process's writes to
\* stdout and stderr, the process is never blocked writing to a full pipe
\* while no task of the job is reading that pipe.
C16_NoBlockedWriteWithoutReader ==
    \A j \in JobIds :
        /\ BlockedOnStdout(j) => StdoutIsRead(j)
        /\ BlockedOnStderr(j) => StderrIsRead(j)

ProcessAlive(j) == proc[j] \in {"run", "write_out", "write_err"}
Terminal(j) == j \in DOMAIN store /\ store[j].status \in {"Completed", "Failed"}

\* C17: under fair scheduling of the program's tasks, where every download
\* completes, every submitted job eventually is Completed or Failed unless its
\* external process never exits: a job stays Pending or Running forever only
\* in the runs in which the process, once spawned, stays alive forever.
C17_JobsTerminate ==
    \A j \in JobIds :
        \/ <>[]ProcessAlive(j)
        \/ [](j \in DOMAIN store => <>Terminal(j))

\* The process of a job has exited and the job is Completed.
C17_Witness ==
    \E j \in JobIds :
        /\ proc[j] = "exited"
        /\ pc[j] = "done"
        /\ Terminal(j)
        /\ store[j].status = "Completed"

\* C19: once a job is Completed or Failed, no later step of any task (its
\* worker, its drain task, the process, a query) changes a field of its
\* record, and the record is never removed.
C19_TerminalRecordIsFrozen ==
    [][\A j \in JobIds :
          Terminal(j) => (j \in DOMAIN store' /\ store'[j] = store[j])]_vars

\* The worker of a Completed job has returned, a query has read its record,
\* and the drain task still has a line of stderr to read.
C19_Witness ==
    \E j \in JobIds :
        /\ Terminal(j)
        /\ pc[j] = "done"
        /\ err_task[j] = "reading"
        /\ err_pipe[j] > 0
        /\ resp # None
        /\ resp[1].op = "status"
        /\ resp[1].job = Some(store[j])

----------------------------------------------------------------------------
(* Properties of submit, the store and the progress loop *)

\* The record of every job whose handler is past the insert is in the store,
\* it is the new record until the worker exists, and an identifier is
\* returned only for a stored record.
InsertedFirst ==
    \A j \in JobIds :
        /\ pc[j] # "idle" => j \in DOMAIN store
        /\ pc[j] = "inserted" => store[j] = JobNew /\ submitResp[j] = None
        /\ submitResp[j] # None => j \in DOMAIN store
        /\ pc[j] \in WorkerPcs => j \in DOMAIN store /\ submitResp[j] # None

\* A record enters the store Pending with progress 0, by the handler's insert;
\* a status query with a returned identifier answers with the record.
InsertedPendingAndFound ==
    /\ \A j \in JobIds :
          (j \notin DOMAIN store /\ j \in DOMAIN store') =>
              /\ store'[j].status = "Pending" /\ store'[j].progress = 0
              /\ pc[j] = "idle" /\ pc'[j] = "inserted"
    /\ (resp' # resp /\ resp'[1].op = "status") =>
          \A j \in JobIds :
              (parse_str(resp'[1].id) = Some(j) /\ submitResp[j] # None) =>
                  /\ resp'[1].code = "OK"
                  /\ resp'[1].job = Some(store[j])

\* C21: the record is inserted Pending with progress 0 before the worker task
\* is started and before submit returns, so a status query with the returned
\* identifier never answers not-found, and every update of the worker finds
\* its key in the store.
C21_InsertBeforeSpawn == []InsertedFirst /\ [][InsertedPendingAndFound]_vars

\* A status query with a returned identifier has answered with the Pending
\* record while the worker has not yet taken a step.
C21_Witness ==
    \E j \in JobIds :
        /\ submitResp[j] # None
        /\ pc[j] = "mkdir"
        /\ resp # None
        /\ resp[1].op = "status"
        /\ parse_str(resp[1].id) = Some(j)
        /\ resp[1].code = "OK"
        /\ resp[1].job = Some(JobNew)

(* Properties of the store's lock *)

\* No task is suspended with a guard of the store's lock in its hands.
NoGuardHeld == lock = {}

\* A status query can take its read guard and answer, and so can an output
\* query as far as its file read.
QueriesNotBlocked ==
    \A t \in IdTexts :
        /\ ENABLED LockGetStatus(t)
        /\ out_req = None => ENABLED OutputGet(t)

\* C22: whenever a task is suspended (the worker at a download, a spawn, a
\* pipe read or a wait, the drain task at its pipe, an output handler at its
\* file read) no guard of the store's lock is held: each is dropped inside the
\* insert, get or update that took it, so status and output queries are never
\* blocked, whatever the job is doing.
C22_LockNotHeldAcrossIO == NoGuardHeld /\ QueriesNotBlocked

\* An output handler is suspended at its file read with no guard held, after
\* a status query was answered while the job was running.
C22_Witness ==
    /\ out_req # None
    /\ lock = {}
    /\ resp # None
    /\ resp[1].op = "status"
    /\ resp[1].code = "OK"
    /\ resp[1].job[1].status = "Running"

(* Properties of the progress loop *)

\* clamp(floor(e / total * 100), 0, 100), e being n or n / 1000.
FloorPercent(n, total) ==
    LET e == IF n > total * 1000 THEN n \div 1000 ELSE n
        p == (e * 100) \div total
    IN  IF p > 100 THEN 100 ELSE IF p < 0 THEN 0 ELSE p

PublishedIsFloor ==
    \A j \in JobIds :
        (pc[j] = "read" /\ pc'[j] = "read" /\ line_in'[j] # None) =>
            LET line == line_in'[j][1]
            IN  IF line.key = "out_time_ms" /\ IsSome(line.val)
                THEN store'[j] = [store[j] EXCEPT
                         !.progress = FloorPercent(line.val[1], compute_duration_ms(design[j]))]
                ELSE store'[j] = store[j]

\* C23: a line of standard output that is not out_time_ms= followed by an
\* unsigned integer leaves the job's record as it is; any other line sets
\* the record's progress to clamp(floor(e / total * 100), 0, 100), total
\* being the output duration and e the value n of the line, or n / 1000
\* when n > total * 1000, and changes no other field.
C23_ProgressIsFloor == [][PublishedIsFloor]_vars

=============================================================================
